---- MODULE Spec2Model ----
(***************************************************************************)
(* The nine HTTP handlers of agenta_backend/routers/evaluation_router.py,  *)
(* one request per behaviour.  A handler runs from one await boundary to   *)
(* the next; every collaborator call (database layer, authorization        *)
(* service, service layer, task queue) returns a value or raises.  The     *)
(* jobs enqueued by create_evaluation are run by a worker that is          *)
(* interleaved with the handler.                                           *)
(***************************************************************************)
EXTENDS Naturals, Sequences, FiniteSets, TLC

VARIABLES
    handler,               \* the route function serving the request
    cloud,                 \* isCloudEE()
    payload,               \* the request's inputs
    perm,                  \* authorization service: object id -> allowed
    pc,                    \* position of the handler
    app,                   \* local `app`: "unset", "None" or an app id
    evaluation,            \* local `evaluation` of the GET handlers
    created,               \* local `evaluation` of create_evaluation
    evaluations,           \* local `evaluations` of create_evaluation
    evaluations_ids_list,  \* local `evaluations_ids_list` of comparison-results
    i,                     \* loop index (variant ids, comparison ids)
    has_permission,        \* result of the last check_action_access
    calls,                 \* collaborator calls issued so far, in order
    records,               \* evaluation records made by create_new_evaluation
    jobs,                  \* the task queue fed by evaluate.delay
    raised,                \* the exception the handler's try block caught
    response               \* the HTTP response of the request

vars == <<handler, cloud, payload, perm, pc, app, evaluation, created,
          evaluations, evaluations_ids_list, i, has_permission, calls,
          records, jobs, raised, response>>

locals == <<app, evaluation, created, evaluations, evaluations_ids_list, i,
            has_permission>>

inputs == <<handler, cloud, payload, perm>>

----------------------------------------------------------------------------
(* Bounds of the model *)

MaxVariants == 2     \* longest payload.variant_ids
MaxIds == 2          \* longest payload.evaluations_ids of a delete
MaxStrLen == 3       \* longest evaluations_ids query string

EvalIds == {"e1", "e2"}
VariantIds == {"v1", "v2"}
Chars == {"a", ","}

SeqsUpTo(S, n) == UNION {[1..k -> S] : k \in 0..n}

----------------------------------------------------------------------------
(* Exceptions and responses *)

KeyError == [cls |-> "KeyError", has_status |-> FALSE, status_code |-> 0,
             msg |-> "'input'"]
PlainError == [cls |-> "Exception", has_status |-> FALSE, status_code |-> 0,
               msg |-> "boom"]
StatusError == [cls |-> "HTTPException", has_status |-> TRUE,
                status_code |-> 503, msg |-> "503: unavailable"]
AttributeError == [cls |-> "AttributeError", has_status |-> FALSE,
                   status_code |-> 0,
                   msg |-> "'NoneType' object has no attribute"]
IndexError == [cls |-> "IndexError", has_status |-> FALSE, status_code |-> 0,
               msg |-> "Cannot choose from an empty sequence"]
NoException == [cls |-> "none", has_status |-> FALSE, status_code |-> 0,
                msg |-> ""]

\* what a collaborator may raise
CollaboratorErrors == {KeyError, PlainError, StatusError}

\* raise HTTPException(status_code=..., detail=...) inside a try block
NotFound(detail) == [cls |-> "HTTPException", has_status |-> TRUE,
                     status_code |-> 404, msg |-> "404: " \o detail]

\* str(exc)
Str(exc) == exc.msg

\* hasattr(exc, "status_code")
HasStatusCode(exc) == exc.has_status

NoResponse == [via |-> "none", status |-> 0, detail |-> "", body |-> <<>>]

PermissionDeniedMsg ==
    "You do not have permission to perform this action. Please contact your organization admin."

ColumnsMsg ==
    "columns in the test set should match the names of the inputs in the variant"

JSONResponse(detail, status_code) ==
    [via |-> "JSONResponse", status |-> status_code, detail |-> detail,
     body |-> <<>>]

HTTPException(status_code, detail) ==
    [via |-> "HTTPException", status |-> status_code, detail |-> detail,
     body |-> <<>>]

\* a value returned by the route function: FastAPI answers 200
Returned(value) ==
    [via |-> "return", status |-> 200, detail |-> "", body |-> value]

\* Response(status_code=status.HTTP_204_NO_CONTENT)
NoContent == [via |-> "Response", status |-> 204, detail |-> "", body |-> <<>>]

\* the response check_ai_critique_inputs hands back when it fails
CritiqueResponse ==
    [via |-> "check_ai_critique_inputs", status |-> 400,
     detail |-> "ai critique inputs", body |-> <<>>]

PermissionDenied == JSONResponse(PermissionDeniedMsg, 403)

----------------------------------------------------------------------------
(* The except clauses of the nine handlers *)

\* except Exception as exc: raise HTTPException(status_code=500, detail=str(exc))
Except500(exc) == HTTPException(500, Str(exc))

\* variant of StatusOf: the exception's own status code is dropped
StatusOf_generic(exc) == 500

\* status_code = exc.status_code if hasattr(exc, "status_code") else 500
StatusOf(exc) == IF HasStatusCode(exc) THEN exc.status_code ELSE 500

ExceptPassThrough(exc) == HTTPException(StatusOf(exc), Str(exc))

\* variant of create_evaluation_except: the `except KeyError` clause is missing
create_evaluation_except_no_key_error(exc) ==
    HTTPException(IF HasStatusCode(exc) THEN exc.status_code ELSE 500, Str(exc))

create_evaluation_except(exc) ==
    IF exc.cls = "KeyError"
    THEN HTTPException(400, ColumnsMsg)
    ELSE HTTPException(StatusOf(exc), Str(exc))

fetch_list_evaluations_except(exc) ==
    HTTPException(StatusOf(exc),
                  "Could not retrieve evaluation results: " \o Str(exc))

Except(h, exc) ==
    CASE h = "fetch_evaluation_ids" -> Except500(exc)
      [] h = "create_evaluation" -> create_evaluation_except(exc)
      [] h = "fetch_evaluation_status" -> Except500(exc)
      [] h = "fetch_evaluation_results" -> Except500(exc)
      [] h = "fetch_evaluation_scenarios" -> ExceptPassThrough(exc)
      [] h = "fetch_list_evaluations" -> fetch_list_evaluations_except(exc)
      [] h = "fetch_evaluation" -> ExceptPassThrough(exc)
      [] h = "delete_evaluations" -> Except500(exc)
      [] h = "comparison_results" -> Except500(exc)

\* variant of Denied: the denial is raised inside the try block
Denied_raised(h) ==
    Except(h, [cls |-> "HTTPException", has_status |-> TRUE,
               status_code |-> 403, msg |-> PermissionDeniedMsg])

\* if not has_permission: return JSONResponse({"detail": error_msg}, 403)
Denied(h) == PermissionDenied

----------------------------------------------------------------------------
(* Pure helpers *)

\* str.split(","): the pieces between the commas, empty pieces included
RECURSIVE SplitAcc(_, _, _)
SplitAcc(s, cur, out) ==
    IF s = <<>> THEN Append(out, cur)
    ELSE IF Head(s) = ","
         THEN SplitAcc(Tail(s), <<>>, Append(out, cur))
         ELSE SplitAcc(Tail(s), Append(cur, Head(s)), out)

Split(s) == SplitAcc(s, <<>>, <<>>)

\* variant of EvaluateJob: evaluate(...) is called in place of evaluate.delay(...)
\* and the job has run when the call returns
EvaluateJob_inline(variant_id, evaluation_record) ==
    [variant_id |-> variant_id, evaluation_id |-> evaluation_record.id,
     state |-> "succeeded"]

\* variant of EvaluateJob: the job names a record that does not exist yet
EvaluateJob_next_id(variant_id, evaluation_record) ==
    [variant_id |-> variant_id, evaluation_id |-> evaluation_record.id + 1,
     state |-> "queued"]

\* the keyword arguments of evaluate.delay that identify the job
EvaluateJob(variant_id, evaluation_record) ==
    [variant_id |-> variant_id, evaluation_id |-> evaluation_record.id,
     state |-> "queued"]

\* variant of AfterVariant: the loop stops one variant id short
AfterVariant_short(k, n) == IF k + 1 < n THEN "create" ELSE "update"

\* for variant_id in payload.variant_ids: where the loop goes after item k of n
AfterVariant(k, n) == IF k < n THEN "create" ELSE "update"

\* variant of AfterCheck: only the first id is checked
AfterCheck_first_only(k, n) == "compare"

\* for evaluation_id in evaluations_ids_list: after the k-th check of n passed
AfterCheck(k, n) == IF k < n THEN "check" ELSE "compare"

\* the ids handed to evaluation_service.delete_evaluations
DeleteArgument(ids) == ids

NoRecord == [id |-> 0, variant_id |-> "none"]

DefaultPayload ==
    [app_id |-> "app1", variant_ids |-> <<>>, evaluation_id |-> "e1",
     evaluations_ids |-> <<>>, evaluations_ids_str |-> <<>>]

AllAllowed == [e \in EvalIds |-> TRUE]

Handlers ==
    {"fetch_evaluation_ids", "create_evaluation", "fetch_evaluation_status",
     "fetch_evaluation_results", "fetch_evaluation_scenarios",
     "fetch_list_evaluations", "fetch_evaluation", "delete_evaluations",
     "comparison_results"}

\* handlers whose first statement is the permission check
FirstPc(h, c) ==
    CASE h = "fetch_evaluation_ids" -> IF c THEN "check" ELSE "fetch"
      [] h = "create_evaluation" -> "fetch_app"
      [] h = "fetch_list_evaluations" -> "fetch_app"
      [] h = "delete_evaluations" -> IF c THEN "check" ELSE "update"
      [] h = "comparison_results" -> "split"
      [] OTHER -> "fetch_eval"

Payloads(h) ==
    CASE h = "create_evaluation" ->
            {[DefaultPayload EXCEPT !.variant_ids = v] :
                v \in SeqsUpTo(VariantIds, MaxVariants)}
      [] h \in {"fetch_evaluation_status", "fetch_evaluation_results",
                "fetch_evaluation_scenarios", "fetch_evaluation"} ->
            {[DefaultPayload EXCEPT !.evaluation_id = e] : e \in EvalIds}
      [] h = "delete_evaluations" ->
            {[DefaultPayload EXCEPT !.evaluations_ids = d] :
                d \in SeqsUpTo(EvalIds, MaxIds)}
      [] h = "comparison_results" ->
            {[DefaultPayload EXCEPT !.evaluations_ids_str = s] :
                s \in SeqsUpTo(Chars, MaxStrLen)}
      [] OTHER -> {DefaultPayload}

\* the authorization answers that matter to the handler
Perms(h, c) ==
    IF c /\ h \in {"fetch_evaluation_status", "fetch_evaluation_results",
                   "fetch_evaluation_scenarios", "fetch_evaluation",
                   "delete_evaluations"}
    THEN [EvalIds -> BOOLEAN]
    ELSE {AllAllowed}

Init ==
    /\ handler \in Handlers
    /\ cloud \in BOOLEAN
    /\ payload \in Payloads(handler)
    /\ perm \in Perms(handler, cloud)
    /\ pc = FirstPc(handler, cloud)
    /\ app = "unset"
    /\ evaluation = "unset"
    /\ created = NoRecord
    /\ evaluations = <<>>
    /\ evaluations_ids_list = <<>>
    /\ i = 1
    /\ has_permission = TRUE
    /\ calls = <<>>
    /\ records = <<>>
    /\ jobs = <<>>
    /\ raised = NoException
    /\ response = NoResponse

----------------------------------------------------------------------------
(* Building blocks of the handler steps *)

Call(fn, arg) == calls' = Append(calls, [fn |-> fn, arg |-> arg])

\* an exception reaches the handler's except clause
Raise(exc) ==
    /\ raised' = exc
    /\ response' = Except(handler, exc)
    /\ pc' = "done"

Respond(r) ==
    /\ response' = r
    /\ pc' = "done"
    /\ UNCHANGED raised

Goto(label) ==
    /\ pc' = label
    /\ UNCHANGED <<raised, response>>

\* has_permission = await check_action_access(...); if not has_permission: ...
CheckAccess(permission, object, answers, next) ==
    /\ Call("check_action_access", <<permission, object>>)
    /\ \/ \E exc \in CollaboratorErrors :
            Raise(exc) /\ UNCHANGED has_permission
       \/ \E ok \in answers :
            /\ has_permission' = ok
            /\ IF ok THEN Goto(next) ELSE Respond(Denied(handler))

\* what the authorization service answers for a fetched object
AnswersFor(object) == IF object \in EvalIds THEN {perm[object]} ELSE BOOLEAN

----------------------------------------------------------------------------
(* GET /by_resource/ : fetch_evaluation_ids *)

Ids_CheckAccess ==
    /\ handler = "fetch_evaluation_ids" /\ pc = "check"
    /\ CheckAccess("VIEW_EVALUATION", "project", BOOLEAN, "fetch")
    /\ UNCHANGED <<inputs, app, evaluation, created, evaluations,
                   evaluations_ids_list, i, records, jobs>>

Ids_Fetch ==
    /\ handler = "fetch_evaluation_ids" /\ pc = "fetch"
    /\ Call("fetch_evaluations_by_resource", <<"project">>)
    /\ \/ \E exc \in CollaboratorErrors : Raise(exc)
       \/ Respond(Returned(<<"evaluation ids">>))
    /\ UNCHANGED <<inputs, locals, records, jobs>>

----------------------------------------------------------------------------
(* POST / : create_evaluation *)

Create_FetchApp ==
    /\ handler = "create_evaluation" /\ pc = "fetch_app"
    /\ Call("fetch_app_by_id", <<payload.app_id>>)
    /\ \/ \E exc \in CollaboratorErrors : Raise(exc) /\ UNCHANGED app
       \/ /\ app' = "None"
          /\ Raise(NotFound("App not found"))
       \/ /\ app' = payload.app_id
          /\ Goto(IF cloud THEN "check" ELSE "critique")
    /\ UNCHANGED <<inputs, evaluation, created, evaluations,
                   evaluations_ids_list, i, has_permission, records, jobs>>

Create_CheckAccess ==
    /\ handler = "create_evaluation" /\ pc = "check"
    /\ CheckAccess("CREATE_EVALUATION", "project", BOOLEAN, "critique")
    /\ UNCHANGED <<inputs, app, evaluation, created, evaluations,
                   evaluations_ids_list, i, records, jobs>>

Create_CheckCritique ==
    /\ handler = "create_evaluation" /\ pc = "critique"
    /\ Call("check_ai_critique_inputs", <<>>)
    /\ \/ \E exc \in CollaboratorErrors : Raise(exc)
       \/ Respond(CritiqueResponse)
       \/ Goto(AfterVariant(0, Len(payload.variant_ids)))
    /\ UNCHANGED <<inputs, locals, records, jobs>>

Create_NewEvaluation ==
    /\ handler = "create_evaluation" /\ pc = "create"
    /\ Call("create_new_evaluation", <<payload.variant_ids[i]>>)
    /\ \/ \E exc \in CollaboratorErrors :
            Raise(exc) /\ UNCHANGED <<created, records>>
       \/ /\ created' = [id |-> Len(records) + 1,
                         variant_id |-> payload.variant_ids[i]]
          /\ records' = Append(records, created')
          /\ Goto("enqueue")
    /\ UNCHANGED <<inputs, app, evaluation, evaluations, evaluations_ids_list,
                   i, has_permission, jobs>>

Create_Enqueue ==
    /\ handler = "create_evaluation" /\ pc = "enqueue"
    /\ Call("evaluate.delay", <<payload.variant_ids[i]>>)
    /\ \/ \E exc \in CollaboratorErrors :
            Raise(exc) /\ UNCHANGED <<jobs, evaluations, i>>
       \/ /\ jobs' = Append(jobs, EvaluateJob(payload.variant_ids[i], created))
          /\ evaluations' = Append(evaluations, created)
          /\ i' = i + 1
          /\ Goto(AfterVariant(i, Len(payload.variant_ids)))
    /\ UNCHANGED <<inputs, app, evaluation, created, evaluations_ids_list,
                   has_permission, records>>

Create_UpdateLastModified ==
    /\ handler = "create_evaluation" /\ pc = "update"
    /\ Call("update_last_modified_by", <<"app", payload.app_id>>)
    /\ \/ \E exc \in CollaboratorErrors : Raise(exc)
       \/ Respond(Returned(evaluations))
    /\ UNCHANGED <<inputs, locals, records, jobs>>

----------------------------------------------------------------------------
(* GET /{evaluation_id}/status/ : fetch_evaluation_status *)

\* db_manager.fetch_evaluation_by_id: the record, null, or an exception
FetchEvaluation(next) ==
    /\ Call("fetch_evaluation_by_id", <<payload.evaluation_id>>)
    /\ \/ \E exc \in CollaboratorErrors : Raise(exc) /\ UNCHANGED evaluation
       \/ \E found \in {"None", payload.evaluation_id} :
            /\ evaluation' = found
            /\ Goto(next)

Status_Fetch ==
    /\ handler = "fetch_evaluation_status" /\ pc = "fetch_eval"
    /\ FetchEvaluation(IF cloud THEN "check" ELSE "respond")
    /\ UNCHANGED <<inputs, app, created, evaluations, evaluations_ids_list,
                   i, has_permission, records, jobs>>

Status_CheckAccess ==
    /\ handler = "fetch_evaluation_status" /\ pc = "check"
    /\ CheckAccess("VIEW_EVALUATION", evaluation, AnswersFor(evaluation),
                   "respond")
    /\ UNCHANGED <<inputs, app, evaluation, created, evaluations,
                   evaluations_ids_list, i, records, jobs>>

\* return {"status": evaluation.status}
Status_Respond ==
    /\ handler = "fetch_evaluation_status" /\ pc = "respond"
    /\ IF evaluation = "None"
       THEN Raise(AttributeError)
       ELSE Respond(Returned(<<"status">>))
    /\ UNCHANGED <<inputs, locals, calls, records, jobs>>

----------------------------------------------------------------------------
(* GET /{evaluation_id}/results/ : fetch_evaluation_results *)

Results_Fetch ==
    /\ handler = "fetch_evaluation_results" /\ pc = "fetch_eval"
    /\ FetchEvaluation(IF cloud THEN "check" ELSE "respond")
    /\ UNCHANGED <<inputs, app, created, evaluations, evaluations_ids_list,
                   i, has_permission, records, jobs>>

Results_CheckAccess ==
    /\ handler = "fetch_evaluation_results" /\ pc = "check"
    /\ CheckAccess("VIEW_EVALUATION", evaluation, AnswersFor(evaluation),
                   "respond")
    /\ UNCHANGED <<inputs, app, evaluation, created, evaluations,
                   evaluations_ids_list, i, records, jobs>>

\* converters.aggregated_result_of_evaluation_to_pydantic(
\*     evaluation.aggregated_results)
Results_Respond ==
    /\ handler = "fetch_evaluation_results" /\ pc = "respond"
    /\ IF evaluation = "None"
       THEN Raise(AttributeError) /\ UNCHANGED calls
       ELSE /\ Call("aggregated_result_of_evaluation_to_pydantic",
                    <<evaluation>>)
            /\ \/ \E exc \in CollaboratorErrors : Raise(exc)
               \/ Respond(Returned(<<"results", payload.evaluation_id>>))
    /\ UNCHANGED <<inputs, locals, records, jobs>>

----------------------------------------------------------------------------
(* GET /{evaluation_id}/evaluation_scenarios/ : fetch_evaluation_scenarios *)

\* fetch_evaluation_by_id followed by `if not evaluation: raise 404`
FetchEvaluationOr404(next) ==
    /\ Call("fetch_evaluation_by_id", <<payload.evaluation_id>>)
    /\ \/ \E exc \in CollaboratorErrors : Raise(exc) /\ UNCHANGED evaluation
       \/ /\ evaluation' = "None"
          /\ Raise(NotFound("Evaluation with id " \o payload.evaluation_id
                            \o " not found"))
       \/ /\ evaluation' = payload.evaluation_id
          /\ Goto(next)

Scenarios_Fetch ==
    /\ handler = "fetch_evaluation_scenarios" /\ pc = "fetch_eval"
    /\ FetchEvaluationOr404(IF cloud THEN "check" ELSE "respond")
    /\ UNCHANGED <<inputs, app, created, evaluations, evaluations_ids_list,
                   i, has_permission, records, jobs>>

Scenarios_CheckAccess ==
    /\ handler = "fetch_evaluation_scenarios" /\ pc = "check"
    /\ CheckAccess("VIEW_EVALUATION", evaluation, AnswersFor(evaluation),
                   "respond")
    /\ UNCHANGED <<inputs, app, evaluation, created, evaluations,
                   evaluations_ids_list, i, records, jobs>>

Scenarios_Respond ==
    /\ handler = "fetch_evaluation_scenarios" /\ pc = "respond"
    /\ Call("fetch_evaluation_scenarios_for_evaluation", <<evaluation>>)
    /\ \/ \E exc \in CollaboratorErrors : Raise(exc)
       \/ Respond(Returned(<<"scenarios">>))
    /\ UNCHANGED <<inputs, locals, records, jobs>>

----------------------------------------------------------------------------
(* GET / : fetch_list_evaluations *)

List_FetchApp ==
    /\ handler = "fetch_list_evaluations" /\ pc = "fetch_app"
    /\ Call("fetch_app_by_id", <<payload.app_id>>)
    /\ \/ \E exc \in CollaboratorErrors : Raise(exc) /\ UNCHANGED app
       \/ \E found \in {"None", payload.app_id} :
            /\ app' = found
            /\ Goto(IF cloud THEN "check" ELSE "respond")
    /\ UNCHANGED <<inputs, evaluation, created, evaluations,
                   evaluations_ids_list, i, has_permission, records, jobs>>

List_CheckAccess ==
    /\ handler = "fetch_list_evaluations" /\ pc = "check"
    /\ CheckAccess("VIEW_EVALUATION", app, BOOLEAN, "respond")
    /\ UNCHANGED <<inputs, app, evaluation, created, evaluations,
                   evaluations_ids_list, i, records, jobs>>

List_Respond ==
    /\ handler = "fetch_list_evaluations" /\ pc = "respond"
    /\ Call("fetch_list_evaluations", <<app>>)
    /\ \/ \E exc \in CollaboratorErrors : Raise(exc)
       \/ Respond(Returned(<<"evaluations">>))
    /\ UNCHANGED <<inputs, locals, records, jobs>>

----------------------------------------------------------------------------
(* GET /{evaluation_id}/ : fetch_evaluation *)

Single_Fetch ==
    /\ handler = "fetch_evaluation" /\ pc = "fetch_eval"
    /\ FetchEvaluationOr404(IF cloud THEN "check" ELSE "respond")
    /\ UNCHANGED <<inputs, app, created, evaluations, evaluations_ids_list,
                   i, has_permission, records, jobs>>

Single_CheckAccess ==
    /\ handler = "fetch_evaluation" /\ pc = "check"
    /\ CheckAccess("VIEW_EVALUATION", payload.evaluation_id,
                   {perm[payload.evaluation_id]}, "respond")
    /\ UNCHANGED <<inputs, app, evaluation, created, evaluations,
                   evaluations_ids_list, i, records, jobs>>

Single_Respond ==
    /\ handler = "fetch_evaluation" /\ pc = "respond"
    /\ Call("evaluation_db_to_pydantic", <<evaluation>>)
    /\ \/ \E exc \in CollaboratorErrors : Raise(exc)
       \/ Respond(Returned(<<evaluation>>))
    /\ UNCHANGED <<inputs, locals, records, jobs>>

----------------------------------------------------------------------------
(* DELETE / : delete_evaluations *)

\* random.choice(seq): any element; IndexError when seq is empty
RandomChoice(seq) == {seq[k] : k \in 1..Len(seq)}

Delete_CheckAccess ==
    /\ handler = "delete_evaluations" /\ pc = "check"
    /\ IF payload.evaluations_ids = <<>>
       THEN Raise(IndexError) /\ UNCHANGED <<calls, has_permission>>
       ELSE \E evaluation_id \in RandomChoice(payload.evaluations_ids) :
                CheckAccess("DELETE_EVALUATION", evaluation_id,
                            {perm[evaluation_id]}, "update")
    /\ UNCHANGED <<inputs, app, evaluation, created, evaluations,
                   evaluations_ids_list, i, records, jobs>>

Delete_UpdateLastModified ==
    /\ handler = "delete_evaluations" /\ pc = "update"
    /\ IF payload.evaluations_ids = <<>>
       THEN Raise(IndexError) /\ UNCHANGED calls
       ELSE \E object_id \in RandomChoice(payload.evaluations_ids) :
                /\ Call("update_last_modified_by", <<"evaluation", object_id>>)
                /\ \/ \E exc \in CollaboratorErrors : Raise(exc)
                   \/ Goto("delete")
    /\ UNCHANGED <<inputs, locals, records, jobs>>

Delete_Service ==
    /\ handler = "delete_evaluations" /\ pc = "delete"
    /\ Call("delete_evaluations", DeleteArgument(payload.evaluations_ids))
    /\ \/ \E exc \in CollaboratorErrors : Raise(exc)
       \/ Respond(NoContent)
    /\ UNCHANGED <<inputs, locals, records, jobs>>

----------------------------------------------------------------------------
(* GET /evaluation_scenarios/comparison-results/ *)

Compare_Split ==
    /\ handler = "comparison_results" /\ pc = "split"
    /\ evaluations_ids_list' = Split(payload.evaluations_ids_str)
    /\ Goto(IF cloud THEN "check" ELSE "compare")
    /\ UNCHANGED <<inputs, app, evaluation, created, evaluations, i,
                   has_permission, calls, records, jobs>>

Compare_CheckAccess ==
    /\ handler = "comparison_results" /\ pc = "check"
    /\ CheckAccess("VIEW_EVALUATION", evaluations_ids_list[i], BOOLEAN,
                   AfterCheck(i, Len(evaluations_ids_list)))
    /\ i' = IF pc' = "done" THEN i ELSE i + 1
    /\ UNCHANGED <<inputs, app, evaluation, created, evaluations,
                   evaluations_ids_list, records, jobs>>

Compare_Service ==
    /\ handler = "comparison_results" /\ pc = "compare"
    /\ Call("compare_evaluations_scenarios", evaluations_ids_list)
    /\ \/ \E exc \in CollaboratorErrors : Raise(exc)
       \/ Respond(Returned(<<"comparison">>))
    /\ UNCHANGED <<inputs, locals, records, jobs>>

----------------------------------------------------------------------------
(* The worker system that runs the enqueued evaluate jobs *)

SetJobState(j, state) == jobs' = [jobs EXCEPT ![j].state = state]

Worker_Start ==
    \E j \in 1..Len(jobs) :
        /\ jobs[j].state = "queued"
        /\ SetJobState(j, "running")
        /\ UNCHANGED <<inputs, locals, pc, calls, records, raised, response>>

Worker_Succeed ==
    \E j \in 1..Len(jobs) :
        /\ jobs[j].state = "running"
        /\ SetJobState(j, "succeeded")
        /\ UNCHANGED <<inputs, locals, pc, calls, records, raised, response>>

Worker_Fail ==
    \E j \in 1..Len(jobs) :
        /\ jobs[j].state = "running"
        /\ SetJobState(j, "failed")
        /\ UNCHANGED <<inputs, locals, pc, calls, records, raised, response>>

----------------------------------------------------------------------------

HandlerStep ==
    \/ Ids_CheckAccess \/ Ids_Fetch
    \/ Create_FetchApp \/ Create_CheckAccess \/ Create_CheckCritique
    \/ Create_NewEvaluation \/ Create_Enqueue \/ Create_UpdateLastModified
    \/ Status_Fetch \/ Status_CheckAccess \/ Status_Respond
    \/ Results_Fetch \/ Results_CheckAccess \/ Results_Respond
    \/ Scenarios_Fetch \/ Scenarios_CheckAccess \/ Scenarios_Respond
    \/ List_FetchApp \/ List_CheckAccess \/ List_Respond
    \/ Single_Fetch \/ Single_CheckAccess \/ Single_Respond
    \/ Delete_CheckAccess \/ Delete_UpdateLastModified \/ Delete_Service
    \/ Compare_Split \/ Compare_CheckAccess \/ Compare_Service

WorkerStep == Worker_Start \/ Worker_Succeed \/ Worker_Fail

Next == HandlerStep \/ WorkerStep

Spec == Init /\ [][Next]_vars

----------------------------------------------------------------------------
(* Properties *)

CallsOf(fn) == SelectSeq(calls, LAMBDA c : c.fn = fn)

Called(fn) == \E k \in 1..Len(calls) : calls[k].fn = fn

Done == pc = "done"

\* the handlers whose except clause keeps the exception's own status code
PassThroughHandlers ==
    {"create_evaluation", "fetch_evaluation_scenarios",
     "fetch_list_evaluations", "fetch_evaluation"}

\* C1: in cloud mode, in each of the nine handlers, once check_action_access
\* has returned false the response is the JSONResponse with status 403 and
\* the fixed detail message; the handler's except clause never turns it into
\* a 500 or any other status.
C1_Denied403 ==
    (cloud /\ ~has_permission) =>
        /\ Done
        /\ response.status = 403
        /\ response.detail = PermissionDeniedMsg
        /\ response.via = "JSONResponse"
        /\ raised = NoException

\* C1 case: the comparison endpoint is denied on the second of two ids
C1_Witness ==
    /\ cloud /\ handler = "comparison_results"
    /\ ~has_permission
    /\ Len(CallsOf("check_action_access")) = 2
    /\ response.status = 403

\* C2 (as claimed): every request whose app or evaluation lookup returned null
\* is answered 404, in every handler that looks one up, cloud mode or not.
C2_NullLookupIs404 ==
    (Done /\ (app = "None" \/ evaluation = "None")) => response.status = 404

\* C3: a create_evaluation request with N variant ids that returns its list
\* has made exactly N create_new_evaluation calls and enqueued exactly N
\* jobs, one record and one job per variant id in payload order, each job
\* carrying the id of the record made for the same variant id, and the
\* response lists exactly those N records in that order.
C3_OneRecordAndJobPerVariant ==
    (handler = "create_evaluation" /\ Done /\ response.via = "return") =>
        LET ids == payload.variant_ids
            n == Len(ids)
        IN  /\ Len(CallsOf("create_new_evaluation")) = n
            /\ Len(CallsOf("evaluate.delay")) = n
            /\ Len(records) = n
            /\ Len(jobs) = n
            /\ \A k \in 1..n :
                  /\ CallsOf("create_new_evaluation")[k].arg = <<ids[k]>>
                  /\ records[k].variant_id = ids[k]
                  /\ jobs[k].variant_id = ids[k]
                  /\ jobs[k].evaluation_id = records[k].id
                  /\ \A m \in 1..n : records[m].id = records[k].id => m = k
            /\ response.status = 200
            /\ response.body = records

\* C3 case: a successful create whose payload repeats a variant id
C3_Witness ==
    /\ handler = "create_evaluation" /\ Done /\ response.via = "return"
    /\ payload.variant_ids = <<"v1", "v1">>
    /\ Len(jobs) = 2

\* C4 (as claimed): a delete_evaluations request that is not denied and whose
\* collaborators do not fail calls the service-layer delete_evaluations once
\* with exactly the payload's ids and answers 204 with an empty body, for
\* every payload id list, the empty list included.
C4_DeleteAnswers204 ==
    (handler = "delete_evaluations" /\ Done /\ has_permission
        /\ raised \notin CollaboratorErrors) =>
        /\ response = NoContent
        /\ Len(CallsOf("delete_evaluations")) = 1
        /\ CallsOf("delete_evaluations")[1].arg = payload.evaluations_ids

\* C5 (as claimed): in cloud mode the comparison endpoint issues exactly K
\* permission checks for a list that splits into K ids, whatever the checks
\* answer.
C5_ExactlyKChecks ==
    (handler = "comparison_results" /\ cloud /\ Done
        /\ raised = NoException) =>
        Len(CallsOf("check_action_access"))
            = Len(Split(payload.evaluations_ids_str))

\* C5 (amended): in cloud mode the comparison endpoint checks the ids of the
\* split list one by one in list order and stops at the first check that
\* returns false or raises, so it issues at most K checks;
\* compare_evaluations_scenarios is called, with the split list, only after
\* exactly K checks that all returned true, and a request that ends with
\* fewer than K checks was denied or failed.
C5_ChecksBeforeCompare ==
    (handler = "comparison_results" /\ cloud /\ pc /= "split") =>
        LET ids == Split(payload.evaluations_ids_str)
            K == Len(ids)
            checks == CallsOf("check_action_access")
        IN  /\ Len(checks) <= K
            /\ \A k \in 1..Len(checks) :
                  /\ calls[k].fn = "check_action_access"
                  /\ calls[k].arg = <<"VIEW_EVALUATION", ids[k]>>
            /\ \A k \in 1..Len(calls) :
                  calls[k].fn = "compare_evaluations_scenarios" =>
                      /\ k = K + 1
                      /\ has_permission
                      /\ calls[k].arg = ids
            /\ (Done /\ Len(checks) < K) =>
                  (~has_permission \/ raised /= NoException)
            /\ (pc = "compare") => (Len(checks) = K /\ has_permission)

\* C5 case: two ids, both checks passed, the comparison service answered
C5_Witness ==
    /\ handler = "comparison_results" /\ cloud /\ Done
    /\ Len(Split(payload.evaluations_ids_str)) = 2
    /\ Len(CallsOf("check_action_access")) = 2
    /\ Called("compare_evaluations_scenarios")
    /\ response.status = 200

\* the exceptions C6 is about: not the handler's own 404, not the KeyError
\* create_evaluation maps to 400
InternalError ==
    /\ raised /= NoException
    /\ raised.status_code /= 404
    /\ ~(handler = "create_evaluation" /\ raised.cls = "KeyError")

C7_KeyErrorIs400 ==
    (handler = "create_evaluation" /\ raised.cls = "KeyError") =>
        /\ Done
        /\ response.via = "HTTPException"
        /\ response.status = 400
        /\ response.detail = ColumnsMsg

\* C7 case: the enqueue of the second variant id raised KeyError
C7_Witness ==
    /\ handler = "create_evaluation" /\ raised = KeyError
    /\ calls[Len(calls)].fn = "evaluate.delay"
    /\ Len(records) = 2
    /\ response.status = 400

\* C8: job submission is fire-and-forget: a step of the handler leaves the
\* jobs already in the queue as they are and adds at most one job, which is
\* queued and not yet started; the handler always has a step to take until
\* it has responded, whatever state the jobs are in; and no step of the
\* worker (start, success, failure) changes the handler's position, its
\* list of records, or the response.
C8_FireAndForget ==
    /\ [][HandlerStep =>
            /\ Len(jobs') \in {Len(jobs), Len(jobs) + 1}
            /\ \A j \in 1..Len(jobs) : jobs'[j] = jobs[j]
            /\ Len(jobs') > Len(jobs) => jobs'[Len(jobs')].state = "queued"
         ]_vars
    /\ [][WorkerStep => UNCHANGED <<pc, evaluations, raised, response>>]_vars
    /\ []((handler = "create_evaluation" /\ ~Done) => ENABLED HandlerStep)

\* C8 case: the create response is out and none of its two jobs has started
C8_Witness ==
    /\ handler = "create_evaluation" /\ Done /\ response.via = "return"
    /\ Len(jobs) = 2
    /\ \A j \in 1..Len(jobs) : jobs[j].state = "queued"
    /\ response.body = records

\* C9 (as claimed): in cloud mode, when the actor lacks DELETE_EVALUATION on
\* some id of the payload, no call of the service-layer delete_evaluations
\* goes through and the response is 403, whichever id the handler picked for
\* its check.
C9_NoDeleteWithoutPermission ==
    (handler = "delete_evaluations" /\ cloud
        /\ \E k \in 1..Len(payload.evaluations_ids) :
              ~perm[payload.evaluations_ids[k]]) =>
        /\ ~(Called("delete_evaluations") /\ raised = NoException)
        /\ (Done /\ raised = NoException) => response.status = 403

C10_State ==
    handler = "create_evaluation" =>
        LET ids == payload.variant_ids
            n == Len(ids)
        IN  /\ Len(records) <= n
            /\ Len(records) - Len(jobs) \in {0, 1}
            /\ Len(jobs) <= Len(records)
            /\ \A j \in 1..Len(jobs) :
                  /\ jobs[j].evaluation_id = records[j].id
                  /\ jobs[j].variant_id = records[j].variant_id
            /\ \A k \in 1..Len(records) :
                  records[k].variant_id = ids[k] /\ records[k].id = k
            /\ Called("update_last_modified_by") =>
                  /\ Len(records) = n
                  /\ Len(jobs) = n
                  /\ Len(CallsOf("create_new_evaluation")) = n
                  /\ Len(CallsOf("evaluate.delay")) = n
                  /\ calls[Len(calls)].fn = "update_last_modified_by"

C10_NoRollback ==
    /\ Len(records') >= Len(records)
    /\ \A k \in 1..Len(records) : records'[k] = records[k]
    /\ Len(jobs') >= Len(jobs)
    /\ \A j \in 1..Len(jobs) :
          /\ jobs'[j].evaluation_id = jobs[j].evaluation_id
          /\ jobs'[j].variant_id = jobs[j].variant_id

\* C10: at every point of a create_evaluation request, also when
\* create_new_evaluation or the enqueue fails at the k-th variant id and the
\* request ends in an error: every enqueued job names a record this request
\* already created for the same variant id; records created minus jobs
\* enqueued is 0 or 1; no step removes or replaces a record or a job made
\* earlier; and update_last_modified_by is called only after every variant
\* id got its record and its job without a failure.
C10_CreateLoopInvariant ==
    /\ []C10_State
    /\ [][C10_NoRollback]_vars

\* C10 case: the enqueue failed at the second variant id, leaving two
\* records and one job behind an error response
C10_Witness ==
    /\ handler = "create_evaluation" /\ Done
    /\ raised = PlainError
    /\ calls[Len(calls)].fn = "evaluate.delay"
    /\ Len(records) = 2 /\ Len(jobs) = 1
    /\ response.status = 500
    /\ ~Called("update_last_modified_by")

====
